---------------------------- MODULE Spec2Model ----------------------------
(***************************************************************************)
(* Model of src/PY/dasa_insumos_ds.py: the FIFO queue FilaConsumo, the     *)
(* LIFO stack PilhaConsultas, the searches busca_sequencial and            *)
(* busca_binaria, and the sorts merge_sort and quick_sort.                 *)
(*                                                                         *)
(* Python values are modelled as follows.                                  *)
(*   str          a sequence of code points; str.lower() maps 'A'..'Z' to  *)
(*                'a'..'z'; < on str is lexicographic on code points.      *)
(*   Insumo       a record [insumo, quantidade]; the fields exame and      *)
(*                validade are read by none of the modelled operations.    *)
(*   Optional[T]  None is <<>>, a present value x is <<x>>.                *)
(*   list index   Python's 0-based index i is the TLA+ index i + 1.        *)
(***************************************************************************)
EXTENDS Integers, Sequences, FiniteSets

VARIABLES
    \* FilaConsumo / PilhaConsultas
    fila,       \* FilaConsumo._q: sequence of <<timestamp, Insumo>>
    pilha,      \* PilhaConsultas._stack: sequence of <<timestamp, Insumo>>
    agora,      \* the reading datetime.now() returns next
    filaRet,    \* value returned by the last call of proximo
    pilhaRet,   \* value returned by the last call of ultimo
    erro,       \* exception raised by the last call ("nenhum": none)
    filaReg,    \* history: entries registered in the queue, in call order
    filaOut,    \* history: entries returned by successful proximo calls
    pilhaLog,   \* history: pushes and successful pops of the stack, in order
    filaMon,    \* observer of the queue: see MonRegistrar, MonRemover
    pilhaMon,   \* observer of the stack
    \* busca_sequencial / busca_binaria
    insumos,    \* the list argument
    nome,       \* the target name (after nome.lower() inside busca_binaria)
    bpc,        \* "inicio", "seq", "bin", "feito"
    bfun,       \* which search was called: "nenhuma", "seq", "bin"
    lo, hi,     \* busca_binaria's interval (0-based, as in the source)
    idx,        \* busca_sequencial's position in the for loop (0-based)
    bret,       \* the search's return value
    bindex,     \* TRUE iff a subscription went outside 0..len-1
    \* merge_sort / quick_sort
    itens,      \* the list argument
    chave,      \* the key function
    spc,        \* "inicio", "qs", "ms_feito", "qs_feito"
    msOut,      \* merge_sort's return value
    qsSegs,     \* quick_sort's pending calls and finished pieces, left to right
    qsOut       \* quick_sort's return value

contVars  == <<fila, pilha, agora, filaRet, pilhaRet, erro, filaReg, filaOut,
               pilhaLog, filaMon, pilhaMon>>
buscaVars == <<insumos, nome, bpc, bfun, lo, hi, idx, bret, bindex>>
ordVars   == <<itens, chave, spc, msOut, qsSegs, qsOut>>
vars      == <<contVars, buscaVars, ordVars>>

---------------------------------------------------------------------------
\* Bounds of the model.

\* longest list handed to a search or a sort
MaxLen == 3
\* registrations (registrar_consumo plus consultar calls) in one run
MaxReg == 3

---------------------------------------------------------------------------
\* Python values.

None == <<>>
Some(x) == <<x>>

\* str.lower() on one code point
LowerChar(c) == IF c \in 65..90 THEN c + 32 ELSE c

\* str.lower()
Lower(s) == [i \in DOMAIN s |-> LowerChar(s[i])]

\* a < b on str: lexicographic on code points, a proper prefix sorts first
StrLt(a, b) ==
    \E i \in 1..(Len(a) + 1) :
        /\ \A j \in 1..(i - 1) : j <= Len(b) /\ a[j] = b[j]
        /\ \/ i = Len(a) + 1 /\ i <= Len(b)
           \/ i <= Len(a) /\ i <= Len(b) /\ a[i] < b[i]

\* names: "A", "a", "B", "ab" (lower-cased: "a", "a", "b", "ab")
Nomes == {<<65>>, <<97>>, <<66>>, <<97, 98>>}

\* target names: the names above and "C", "b", which no record carries
Alvos == Nomes \cup {<<67>>, <<98>>}

Quantidades == {1, 2}

\* class Insumo
Insumo == [insumo : Nomes, quantidade : Quantidades]

\* all lists of Insumo of length 0..n
Listas(n) == UNION {[1..k -> Insumo] : k \in 0..n}

---------------------------------------------------------------------------
\* FilaConsumo and PilhaConsultas.

\* records handed to the containers: three distinct records a, b, c
Lote == {[insumo |-> <<65>>, quantidade |-> 1],
         [insumo |-> <<66>>, quantidade |-> 2],
         [insumo |-> <<97, 98>>, quantidade |-> 1]}

\* datetime.now(): the reading, after which time has passed or not
Agora(t) == {t, t + 1}

\* collections.deque.popleft: removes and returns the leftmost element,
\* IndexError on an empty deque
popleft(q) ==
    IF q = <<>>
    THEN [ret |-> None, q |-> q, erro |-> "IndexError"]
    ELSE [ret |-> Some(Head(q)), q |-> Tail(q), erro |-> "nenhum"]

\* list.pop(): removes and returns the last element, IndexError on an
\* empty list
pop(s) ==
    IF s = <<>>
    THEN [ret |-> None, q |-> s, erro |-> "IndexError"]
    ELSE [ret |-> Some(s[Len(s)]), q |-> SubSeq(s, 1, Len(s) - 1),
          erro |-> "nenhum"]

\* mutant: proximo without the emptiness test
proximo_sem_teste(q) == popleft(q)

\* mutant: proximo taking from the right end
proximo_direita(q) == IF q # <<>> THEN pop(q)
                      ELSE [ret |-> None, q |-> q, erro |-> "nenhum"]

\* FilaConsumo.proximo: self._q.popleft() if self._q else None
proximo_corpo(q) ==
    IF q # <<>> THEN popleft(q)
    ELSE [ret |-> None, q |-> q, erro |-> "nenhum"]

\* mutant: ultimo taking from the bottom (pop(0))
ultimo_fundo(s) == IF s # <<>> THEN popleft(s)
                   ELSE [ret |-> None, q |-> s, erro |-> "nenhum"]

\* PilhaConsultas.ultimo: self._stack.pop() if self._stack else None
ultimo_corpo(s) ==
    IF s # <<>> THEN pop(s)
    ELSE [ret |-> None, q |-> s, erro |-> "nenhum"]

\* registrations made so far
Registros == Len(filaReg) + Cardinality({i \in DOMAIN pilhaLog : pilhaLog[i].op = "push"})

\* The observers follow one scenario per container: a removal from the empty
\* container ("vazio"), then a registration ("registrado"), then a removal
\* ("removido"); any other call order is "outro".
MonRegistrar(m) == IF m = "vazio" THEN "registrado" ELSE "outro"
MonRemover(m, estavaVazio) ==
    IF estavaVazio THEN "vazio"
    ELSE IF m = "registrado" THEN "removido" ELSE "outro"

\* FilaConsumo.registrar_consumo
registrar_consumo(item) ==
    /\ Registros < MaxReg
    /\ \E t \in Agora(agora) :
        /\ fila' = Append(fila, <<agora, item>>)
        /\ filaReg' = Append(filaReg, <<agora, item>>)
        /\ agora' = t
    /\ filaMon' = MonRegistrar(filaMon)
    /\ erro' = "nenhum"
    /\ UNCHANGED <<pilha, filaRet, pilhaRet, filaOut, pilhaLog, pilhaMon>>
    /\ UNCHANGED <<buscaVars, ordVars>>

\* FilaConsumo.proximo
proximo ==
    LET r == proximo_corpo(fila) IN
    /\ fila' = r.q
    /\ filaRet' = r.ret
    /\ erro' = r.erro
    /\ filaOut' = IF r.ret # None THEN Append(filaOut, r.ret[1]) ELSE filaOut
    /\ filaMon' = MonRemover(filaMon, fila = <<>>)
    /\ UNCHANGED <<pilha, agora, pilhaRet, filaReg, pilhaLog, pilhaMon>>
    /\ UNCHANGED <<buscaVars, ordVars>>

\* PilhaConsultas.consultar
consultar(item) ==
    /\ Registros < MaxReg
    /\ \E t \in Agora(agora) :
        /\ pilha' = Append(pilha, <<agora, item>>)
        /\ pilhaLog' = Append(pilhaLog, [op |-> "push", e |-> <<agora, item>>])
        /\ agora' = t
    /\ pilhaMon' = MonRegistrar(pilhaMon)
    /\ erro' = "nenhum"
    /\ UNCHANGED <<fila, filaRet, pilhaRet, filaReg, filaOut, filaMon>>
    /\ UNCHANGED <<buscaVars, ordVars>>

\* PilhaConsultas.ultimo
ultimo ==
    LET r == ultimo_corpo(pilha) IN
    /\ pilha' = r.q
    /\ pilhaRet' = r.ret
    /\ erro' = r.erro
    /\ pilhaLog' = IF r.ret # None
                   THEN Append(pilhaLog, [op |-> "pop", e |-> r.ret[1]])
                   ELSE pilhaLog
    /\ pilhaMon' = MonRemover(pilhaMon, pilha = <<>>)
    /\ UNCHANGED <<fila, agora, filaRet, filaReg, filaOut, filaMon>>
    /\ UNCHANGED <<buscaVars, ordVars>>

\* FilaConsumo.__init__ and PilhaConsultas.__init__; no search and no sort
\* is under way
InitCont ==
    /\ fila = <<>>
    /\ pilha = <<>>
    /\ agora = 0
    /\ filaRet = None
    /\ pilhaRet = None
    /\ erro = "nenhum"
    /\ filaReg = <<>>
    /\ filaOut = <<>>
    /\ pilhaLog = <<>>
    /\ filaMon = "outro"
    /\ pilhaMon = "outro"
    /\ insumos = <<>>
    /\ nome = <<>>
    /\ bpc = "inicio"
    /\ bfun = "nenhuma"
    /\ lo = 0
    /\ hi = 0
    /\ idx = 0
    /\ bret = None
    /\ bindex = FALSE
    /\ itens = <<>>
    /\ chave = "quantidade"
    /\ spc = "inicio"
    /\ msOut = None
    /\ qsSegs = <<>>
    /\ qsOut = None

NextCont ==
    \/ \E item \in Lote : registrar_consumo(item)
    \/ proximo
    \/ \E item \in Lote : consultar(item)
    \/ ultimo

\* one queue and one stack, called in any order
SpecCont == InitCont /\ [][NextCont]_vars

---------------------------------------------------------------------------
\* busca_sequencial and busca_binaria.

\* mutant: the target is compared as given, not lower-cased
seq_igual_sem_lower(item, alvo) == Lower(item.insumo) = alvo

\* busca_sequencial's test: item.insumo.lower() == nome.lower()
seq_igual(item, alvo) == Lower(item.insumo) = Lower(alvo)

\* mutant: the halves are swapped
bin_estreita_trocada(atual, alvo, l, h, mid) ==
    IF StrLt(atual, alvo) THEN [lo |-> l, hi |-> mid - 1]
    ELSE [lo |-> mid + 1, hi |-> h]

\* busca_binaria's narrowing: lo = mid + 1 if atual < nome else hi = mid - 1
bin_estreita(atual, alvo, l, h, mid) ==
    IF StrLt(atual, alvo) THEN [lo |-> mid + 1, hi |-> h]
    ELSE [lo |-> l, hi |-> mid - 1]

\* the caller's arguments: any list, sorted or not, and any target name
InitBusca ==
    /\ insumos \in Listas(MaxLen)
    /\ nome \in Alvos
    /\ bpc = "inicio"
    /\ bfun = "nenhuma"
    /\ lo = 0
    /\ hi = 0
    /\ idx = 0
    /\ bret = None
    /\ bindex = FALSE
    /\ fila = <<>>
    /\ pilha = <<>>
    /\ agora = 0
    /\ filaRet = None
    /\ pilhaRet = None
    /\ erro = "nenhum"
    /\ filaReg = <<>>
    /\ filaOut = <<>>
    /\ pilhaLog = <<>>
    /\ filaMon = "outro"
    /\ pilhaMon = "outro"
    /\ itens = <<>>
    /\ chave = "quantidade"
    /\ spc = "inicio"
    /\ msOut = None
    /\ qsSegs = <<>>
    /\ qsOut = None

\* busca_sequencial is called: the for loop starts at the first element
busca_sequencial_chamada ==
    /\ bpc = "inicio"
    /\ bpc' = "seq"
    /\ bfun' = "seq"
    /\ idx' = 0
    /\ UNCHANGED <<insumos, nome, lo, hi, bret, bindex>>
    /\ UNCHANGED <<contVars, ordVars>>

\* one iteration of busca_sequencial's for loop, or its end
busca_sequencial ==
    /\ bpc = "seq"
    /\ IF idx < Len(insumos)
       THEN IF seq_igual(insumos[idx + 1], nome)
            THEN bret' = Some(insumos[idx + 1]) /\ bpc' = "feito" /\ idx' = idx
            ELSE bret' = bret /\ bpc' = "seq" /\ idx' = idx + 1
       ELSE bret' = None /\ bpc' = "feito" /\ idx' = idx
    /\ UNCHANGED <<insumos, nome, bfun, lo, hi, bindex>>
    /\ UNCHANGED <<contVars, ordVars>>

\* busca_binaria is called: lo, hi = 0, len - 1; nome = nome.lower()
busca_binaria_chamada ==
    /\ bpc = "inicio"
    /\ bpc' = "bin"
    /\ bfun' = "bin"
    /\ lo' = 0
    /\ hi' = Len(insumos) - 1
    /\ nome' = Lower(nome)
    /\ UNCHANGED <<insumos, idx, bret, bindex>>
    /\ UNCHANGED <<contVars, ordVars>>

\* one iteration of busca_binaria's while loop, or its end
busca_binaria ==
    /\ bpc = "bin"
    /\ IF lo <= hi
       THEN LET mid == (lo + hi) \div 2 IN
            IF mid < 0 \/ mid >= Len(insumos)
            THEN /\ bindex' = TRUE
                 /\ bret' = None
                 /\ bpc' = "feito"
                 /\ UNCHANGED <<lo, hi>>
            ELSE LET atual == Lower(insumos[mid + 1].insumo) IN
                 IF atual = nome
                 THEN /\ bret' = Some(insumos[mid + 1])
                      /\ bpc' = "feito"
                      /\ UNCHANGED <<lo, hi, bindex>>
                 ELSE /\ lo' = bin_estreita(atual, nome, lo, hi, mid).lo
                      /\ hi' = bin_estreita(atual, nome, lo, hi, mid).hi
                      /\ UNCHANGED <<bret, bpc, bindex>>
       ELSE /\ bret' = None
            /\ bpc' = "feito"
            /\ UNCHANGED <<lo, hi, bindex>>
    /\ UNCHANGED <<insumos, nome, bfun, idx>>
    /\ UNCHANGED <<contVars, ordVars>>

NextBusca ==
    \/ busca_sequencial_chamada
    \/ busca_sequencial
    \/ busca_binaria_chamada
    \/ busca_binaria

\* one call of one of the two searches
SpecBusca == InitBusca /\ [][NextBusca]_vars

---------------------------------------------------------------------------
\* merge_sort and quick_sort.

\* key functions: x.quantidade, x.insumo.lower() (both used by demo) and
\* x.insumo
Chaves == {"quantidade", "insumo_lower", "insumo"}

\* key(x)
KeyOf(key, x) ==
    CASE key = "quantidade" -> x.quantidade
      [] key = "insumo_lower" -> Lower(x.insumo)
      [] key = "insumo" -> x.insumo

\* u < v on two keys of key function key
KeyLt(key, u, v) == IF key = "quantidade" THEN u < v ELSE StrLt(u, v)

\* u <= v on two keys
KeyLe(key, u, v) == u = v \/ KeyLt(key, u, v)

\* mutant: ties go to the right half
toma_esquerda_estrito(x, y, key) == KeyLt(key, KeyOf(key, x), KeyOf(key, y))

\* _merge's test: key(a[i]) <= key(b[j])
toma_esquerda(x, y, key) == KeyLe(key, KeyOf(key, x), KeyOf(key, y))

\* mutant: the rest of b is dropped
merge_resto_sem_b(a, b, i, j) == SubSeq(a, i + 1, Len(a))

\* _merge's tail: out.extend(a[i:]); out.extend(b[j:])
merge_resto(a, b, i, j) == SubSeq(a, i + 1, Len(a)) \o SubSeq(b, j + 1, Len(b))

\* _merge's while loop from positions i, j (0-based) with out built so far
RECURSIVE merge_laco(_, _, _, _, _, _)
merge_laco(a, b, i, j, out, key) ==
    IF i < Len(a) /\ j < Len(b)
    THEN IF toma_esquerda(a[i + 1], b[j + 1], key)
         THEN merge_laco(a, b, i + 1, j, Append(out, a[i + 1]), key)
         ELSE merge_laco(a, b, i, j + 1, Append(out, b[j + 1]), key)
    ELSE out \o merge_resto(a, b, i, j)

\* _merge
merge(a, b, key) == merge_laco(a, b, 0, 0, <<>>, key)

\* merge_sort
RECURSIVE merge_sort(_, _)
merge_sort(s, key) ==
    IF Len(s) <= 1 THEN s
    ELSE LET mid == Len(s) \div 2
             esquerda == merge_sort(SubSeq(s, 1, mid), key)
             direita == merge_sort(SubSeq(s, mid + 1, Len(s)), key)
         IN merge(esquerda, direita, key)

\* the keys of all records
TodasChaves(key) == {KeyOf(key, x) : x \in Insumo}

\* mutant: the pivot is any key, of an element of the list or not
pivots_qualquer(s, key) == TodasChaves(key)

\* the values key(random.choice(itens)) can take
pivots(s, key) == {KeyOf(key, s[i]) : i \in DOMAIN s}

\* [x for x in itens if key(x) < pivot]
menores(s, key, pivot) ==
    LET T(x) == KeyLt(key, KeyOf(key, x), pivot) IN SelectSeq(s, T)

\* mutant: the elements equal to the pivot come out in reverse
iguais_invertido(s, key, pivot) ==
    LET T(x) == KeyOf(key, x) = pivot
        r == SelectSeq(s, T)
    IN [i \in 1..Len(r) |-> r[Len(r) + 1 - i]]

\* [x for x in itens if key(x) == pivot]
iguais(s, key, pivot) ==
    LET T(x) == KeyOf(key, x) = pivot IN SelectSeq(s, T)

\* mutant: the test of menores copied unchanged (< instead of >)
maiores_copiado(s, key, pivot) ==
    LET T(x) == KeyLt(key, KeyOf(key, x), pivot) IN SelectSeq(s, T)

\* [x for x in itens if key(x) > pivot]
maiores(s, key, pivot) ==
    LET T(x) == KeyLt(key, pivot, KeyOf(key, x)) IN SelectSeq(s, T)

\* A quick_sort call in progress is the sequence qsSegs of its pieces, left
\* to right: a piece is a call not yet made (call = TRUE, itens its argument)
\* or a finished part of the result (call = FALSE). Python evaluates
\* quick_sort(menores) + iguais + quick_sort(maiores) left to right, so the
\* next call made is the leftmost pending one.
Chamadas(segs) == {i \in DOMAIN segs : segs[i].call}
PrimeiraChamada(segs) == CHOOSE i \in Chamadas(segs) : \A j \in Chamadas(segs) : i <= j

\* segs with piece i replaced by the pieces novo
Troca(segs, i, novo) ==
    SubSeq(segs, 1, i - 1) \o novo \o SubSeq(segs, i + 1, Len(segs))

\* the concatenation of the pieces' lists
RECURSIVE Junta(_)
Junta(segs) == IF segs = <<>> THEN <<>> ELSE Head(segs).itens \o Junta(Tail(segs))

\* the caller's arguments: any list and any key function
InitOrd ==
    /\ itens \in Listas(MaxLen)
    /\ chave \in Chaves
    /\ spc = "inicio"
    /\ msOut = None
    /\ qsSegs = <<>>
    /\ qsOut = None
    /\ insumos = <<>>
    /\ nome = <<>>
    /\ bpc = "inicio"
    /\ bfun = "nenhuma"
    /\ lo = 0
    /\ hi = 0
    /\ idx = 0
    /\ bret = None
    /\ bindex = FALSE
    /\ fila = <<>>
    /\ pilha = <<>>
    /\ agora = 0
    /\ filaRet = None
    /\ pilhaRet = None
    /\ erro = "nenhum"
    /\ filaReg = <<>>
    /\ filaOut = <<>>
    /\ pilhaLog = <<>>
    /\ filaMon = "outro"
    /\ pilhaMon = "outro"

\* a call of merge_sort(itens, chave), which draws nothing at random
merge_sort_chamada ==
    /\ spc = "inicio"
    /\ msOut' = Some(merge_sort(itens, chave))
    /\ spc' = "ms_feito"
    /\ UNCHANGED <<itens, chave, qsSegs, qsOut>>
    /\ UNCHANGED <<contVars, buscaVars>>

\* quick_sort(itens, chave) is called
quick_sort_chamada ==
    /\ spc = "inicio"
    /\ qsSegs' = <<[call |-> TRUE, itens |-> itens]>>
    /\ spc' = "qs"
    /\ UNCHANGED <<itens, chave, msOut, qsOut>>
    /\ UNCHANGED <<contVars, buscaVars>>

\* the body of the next quick_sort call: the base case, or a pivot and the
\* three partitions
quick_sort ==
    /\ spc = "qs"
    /\ Chamadas(qsSegs) # {}
    /\ LET i == PrimeiraChamada(qsSegs)
           s == qsSegs[i].itens
       IN IF Len(s) <= 1
          THEN qsSegs' = Troca(qsSegs, i, <<[call |-> FALSE, itens |-> s]>>)
          ELSE \E pivot \in pivots(s, chave) :
                 qsSegs' = Troca(qsSegs, i,
                     <<[call |-> TRUE, itens |-> menores(s, chave, pivot)],
                       [call |-> FALSE, itens |-> iguais(s, chave, pivot)],
                       [call |-> TRUE, itens |-> maiores(s, chave, pivot)]>>)
    /\ UNCHANGED <<itens, chave, spc, msOut, qsOut>>
    /\ UNCHANGED <<contVars, buscaVars>>

\* the outermost quick_sort call returns, every inner call having returned
quick_sort_retorno ==
    /\ spc = "qs"
    /\ Chamadas(qsSegs) = {}
    /\ qsOut' = Some(Junta(qsSegs))
    /\ spc' = "qs_feito"
    /\ UNCHANGED <<itens, chave, msOut, qsSegs>>
    /\ UNCHANGED <<contVars, buscaVars>>

NextOrd ==
    \/ merge_sort_chamada
    \/ quick_sort_chamada
    \/ quick_sort
    \/ quick_sort_retorno

\* one call of one of the two sorts
SpecOrd == InitOrd /\ [][NextOrd]_vars

\* the same, where a call that can take a step takes it: the interpreter
\* runs a started call on (single thread, no suspension)
FairSpecOrd ==
    InitOrd /\ [][NextOrd]_vars /\ WF_vars(quick_sort) /\ WF_vars(quick_sort_retorno)

---------------------------------------------------------------------------
\* Claims about FilaConsumo and PilhaConsultas.

\* s is a prefix of t
Prefixo(s, t) == Len(s) <= Len(t) /\ SubSeq(t, 1, Len(s)) = s

\* C1: FilaConsumo is FIFO: the entries returned by successful proximo calls
\* are, in order, a prefix of the entries in registration order, and the
\* queue holds exactly the registered entries not yet returned, oldest first
\* (so each successful proximo returned the oldest entry not yet returned).
C1_FilaFIFO ==
    /\ Prefixo(filaOut, filaReg)
    /\ filaReg = filaOut \o fila
    /\ filaRet # None => filaOut # <<>> /\ filaRet = Some(filaOut[Len(filaOut)])

\* three distinct records were registered, three proximo calls returned them
\* and a fourth found the queue empty
C1_Witness ==
    /\ Len(filaOut) = 3
    /\ Cardinality({filaOut[i][2] : i \in 1..3}) = 3
    /\ filaMon = "vazio"
    /\ filaRet = None

\* the entries pushed and not yet popped after the events of log, in push
\* order, when every pop takes the most recent of them
RECURSIVE Pendentes(_)
Pendentes(log) ==
    IF log = <<>> THEN <<>>
    ELSE LET antes == Pendentes(SubSeq(log, 1, Len(log) - 1))
             ev == log[Len(log)]
         IN IF ev.op = "push" THEN Append(antes, ev.e)
            ELSE SubSeq(antes, 1, Len(antes) - 1)

\* C2: PilhaConsultas is LIFO: every successful ultimo returned the entry of
\* the most recently pushed record not yet popped, and removed it.
C2_PilhaLIFO ==
    /\ \A i \in DOMAIN pilhaLog :
          pilhaLog[i].op = "pop" =>
            LET p == Pendentes(SubSeq(pilhaLog, 1, i - 1))
            IN p # <<>> /\ pilhaLog[i].e = p[Len(p)]
    /\ pilha = Pendentes(pilhaLog)

\* three distinct records were pushed, three ultimo calls returned them in
\* reverse and a fourth found the stack empty
C2_Witness ==
    /\ Len(pilhaLog) = 6
    /\ \A i \in 1..3 : pilhaLog[i].op = "push" /\ pilhaLog[i + 3].op = "pop"
    /\ Cardinality({pilhaLog[i].e[2] : i \in 1..3}) = 3
    /\ pilhaMon = "vazio"
    /\ pilhaRet = None

\* the entry of the last push in log
UltimoPush(log) ==
    LET I == {i \in DOMAIN log : log[i].op = "push"}
        m == CHOOSE i \in I : \A j \in I : j <= i
    IN log[m].e

\* C3: a removal from an empty container returns None, raises nothing and
\* leaves the container empty; a registration and a removal made right after
\* it return the record just registered.
C3_VazioAusente ==
    /\ filaMon = "vazio" =>
          filaRet = None /\ erro = "nenhum" /\ fila = <<>> /\ Len(fila) = 0
    /\ pilhaMon = "vazio" =>
          pilhaRet = None /\ erro = "nenhum" /\ pilha = <<>> /\ Len(pilha) = 0
    /\ filaMon = "removido" =>
          filaRet = Some(filaReg[Len(filaReg)]) /\ erro = "nenhum"
    /\ pilhaMon = "removido" =>
          pilhaRet = Some(UltimoPush(pilhaLog)) /\ erro = "nenhum"

\* both containers were found empty by a removal, then took one record and
\* gave it back
C3_Witness == filaMon = "removido" /\ pilhaMon = "removido"

---------------------------------------------------------------------------
\* Claims about busca_binaria and busca_sequencial.

\* positions (1-based) of the records whose lower-cased name is the
\* lower-cased target
Casam(s, alvo) == {i \in DOMAIN s : Lower(s[i].insumo) = Lower(alvo)}

\* s is sorted ascending by lower-cased name
OrdenadaPorNome(s) ==
    \A i, j \in DOMAIN s :
        i < j => ~StrLt(Lower(s[j].insumo), Lower(s[i].insumo))

\* C7: on a list sorted ascending by lower-cased name, busca_binaria returns
\* a record of the list whose lower-cased name is the lower-cased target when
\* there is one, None exactly when there is none, and never subscripts
\* outside the list.
C7_BinariaCorreta ==
    (bfun = "bin" /\ OrdenadaPorNome(insumos)) =>
        /\ ~bindex
        /\ bpc = "feito" =>
            /\ Casam(insumos, nome) # {} =>
                 /\ bret # None
                 /\ \E i \in Casam(insumos, nome) : bret = Some(insumos[i])
            /\ Casam(insumos, nome) = {} <=> bret = None

\* a sorted list of three records, two of them with the target's name in
\* different case, and the search found one
C7_Witness ==
    /\ bfun = "bin" /\ bpc = "feito"
    /\ OrdenadaPorNome(insumos)
    /\ Len(insumos) = 3
    /\ Cardinality(Casam(insumos, nome)) = 2
    /\ Cardinality({insumos[i].insumo : i \in Casam(insumos, nome)}) = 2
    /\ bret # None

\* C8: busca_sequencial returns the element at the smallest index whose
\* lower-cased name is the lower-cased target, and None when no element
\* matches, whatever the order of the list.
C8_SequencialPrimeiro ==
    (bfun = "seq" /\ bpc = "feito") =>
        LET M == Casam(insumos, nome) IN
        IF M = {} THEN bret = None
        ELSE bret = Some(insumos[CHOOSE i \in M : \A j \in M : i <= j])

\* an unsorted list with two different records matching an upper-case
\* target, the first of them not at the head
C8_Witness ==
    /\ bfun = "seq" /\ bpc = "feito"
    /\ ~OrdenadaPorNome(insumos)
    /\ nome = <<65>>
    /\ Casam(insumos, nome) = {2, 3}
    /\ insumos[2] # insumos[3]
    /\ bret = Some(insumos[2])

---------------------------------------------------------------------------
\* Claims about merge_sort and quick_sort.

\* number of occurrences of x in s
Conta(s, x) == Cardinality({i \in DOMAIN s : s[i] = x})

\* s and t hold the same multiset of elements
MesmoMultiset(s, t) == \A x \in Insumo : Conta(s, x) = Conta(t, x)

\* the keys of s are non-decreasing
Ordenada(s, key) ==
    \A i, j \in DOMAIN s :
        i < j => ~KeyLt(key, KeyOf(key, s[j]), KeyOf(key, s[i]))

\* the elements of s with key v, in order
ComChave(s, key, v) == LET T(x) == KeyOf(key, x) = v IN SelectSeq(s, T)

\* elements of equal key stand in out in the order they have in s
Estavel(out, s, key) ==
    \A v \in TodasChaves(key) : ComChave(out, key, v) = ComChave(s, key, v)

\* two different records of s have the same key
TemEmpate(s, key) ==
    \E i, j \in DOMAIN s : s[i] # s[j] /\ KeyOf(key, s[i]) = KeyOf(key, s[j])

\* C4: merge_sort returns a list of the length of its argument, with the same
\* multiset of elements, whose keys are non-decreasing.
C4_MergeSortPermOrdenada ==
    spc = "ms_feito" =>
        /\ Len(msOut[1]) = Len(itens)
        /\ MesmoMultiset(msOut[1], itens)
        /\ Ordenada(msOut[1], chave)

\* a list of three records that merge_sort had to reorder
C4_Witness ==
    /\ spc = "ms_feito"
    /\ Len(itens) = 3
    /\ ~Ordenada(itens, chave)
    /\ msOut[1] # itens

\* C5: merge_sort is stable: elements of equal key keep their relative order.
C5_MergeSortEstavel ==
    spc = "ms_feito" => Estavel(msOut[1], itens, chave)

\* an unsorted list in which two different records with the same key were
\* split over the two halves
C5_Witness ==
    /\ spc = "ms_feito"
    /\ Len(itens) = 3
    /\ ~Ordenada(itens, chave)
    /\ itens[1] # itens[3]
    /\ KeyOf(chave, itens[1]) = KeyOf(chave, itens[3])

\* C6: whatever the pivots drawn, quick_sort returns a list of the length
\* of its argument, with the same multiset of elements, whose keys are
\* non-decreasing.
C6_QuickSortPermOrdenada ==
    spc = "qs_feito" =>
        /\ Len(qsOut[1]) = Len(itens)
        /\ MesmoMultiset(qsOut[1], itens)
        /\ Ordenada(qsOut[1], chave)

\* a list of three records that quick_sort had to reorder
C6_Witness ==
    /\ spc = "qs_feito"
    /\ Len(itens) = 3
    /\ ~Ordenada(itens, chave)
    /\ qsOut[1] # itens

\* the step partitioned the list of the leftmost pending call
QSParticionou ==
    spc = "qs" /\ spc' = "qs" /\ Len(qsSegs') = Len(qsSegs) + 2

\* C9: quick_sort terminates whatever the pivots drawn: at every partition
\* the equal part is not empty and both recursive calls get a list shorter
\* than the current one, and a call once started returns.
C9_QuickSortTermina ==
    /\ [][QSParticionou =>
            LET i == PrimeiraChamada(qsSegs)
                n == Len(qsSegs[i].itens)
            IN /\ Len(qsSegs'[i + 1].itens) >= 1
               /\ Len(qsSegs'[i].itens) < n
               /\ Len(qsSegs'[i + 2].itens) < n]_vars
    /\ (spc = "qs") ~> (spc = "qs_feito")

\* quick_sort returned on three records in strictly decreasing key order
C9_Witness ==
    /\ spc = "qs_feito"
    /\ Len(itens) = 3
    /\ \A i \in 1..2 :
         KeyLt(chave, KeyOf(chave, itens[i + 1]), KeyOf(chave, itens[i]))

\* C10: the result of quick_sort does not depend on the pivots drawn: it is
\* merge_sort's result, element for element, with equal-key elements in input
\* order; on a list already sorted, both sorts return an equal list.
C10_QuickSortIgualMergeSort ==
    /\ spc = "qs_feito" =>
         /\ qsOut[1] = merge_sort(itens, chave)
         /\ Estavel(qsOut[1], itens, chave)
         /\ Ordenada(itens, chave) => qsOut[1] = itens
    /\ (spc = "ms_feito" /\ Ordenada(itens, chave)) => msOut[1] = itens

\* quick_sort returned on an unsorted list of three records in which two
\* different records have the same key
C10_Witness ==
    /\ spc = "qs_feito"
    /\ Len(itens) = 3
    /\ ~Ordenada(itens, chave)
    /\ TemEmpate(itens, chave)

===========================================================================
